---- MODULE Spec2Model ----
(***************************************************************************)
(* Browser client of the multimodal moderation demo: the UI controller     *)
(* (frontend/js/ui.js), the API client and CONFIG (frontend/js/api.js) and *)
(* the orchestrator ModerationApp (frontend/js/app.js).                    *)
(*                                                                         *)
(* One action is one browser task together with the microtasks it queues:  *)
(* a click handler runs up to its first await on the network, a network    *)
(* event resumes the async functions up to the next such await, a timer    *)
(* callback runs to completion.  alert() is modal: while it is open no     *)
(* other task runs.                                                        *)
(***************************************************************************)
EXTENDS Integers, Sequences, FiniteSets, TLC

VARIABLES
    ui,           \* the UIController's fields and the DOM state it writes
    textInput,    \* #text-input .value, a sequence of characters
    files,        \* per file mode: #<mode>-file .files[0].size, or NoFile
    previewShown, \* the file modes whose #<mode>-preview has class 'show'
    intervals,    \* live setInterval timers of updateLoadingProgress, oldest first
    requests,     \* startModeration calls suspended inside APIService.moderate
    alertOpen,    \* the modal alert() of startModeration is on screen
    sub           \* history of the current (or last) validated submission

vars == <<ui, textInput, files, previewShown, intervals, requests, alertOpen, sub>>

-----------------------------------------------------------------------------
(* Bounds of the model *)

MaxIntervals == 1
MaxStaleIntervals == 2
MaxRequests == 2
MaxConfidence == 100

-----------------------------------------------------------------------------
(* CONFIG *)

Modes == {"text", "image", "audio", "video"}
FileModes == {"image", "audio", "video"}

MAX_SIZE == 50 * 1024 * 1024

WARNING_THRESHOLD == 60
DANGER_THRESHOLD == 80

LOADING_STEPS ==
    [ text  |-> <<"text:tokenizer", "text:features", "text:semantics", "text:representation">>,
      image |-> <<"image:load", "image:ocr", "image:clip", "image:align">>,
      audio |-> <<"audio:load", "audio:whisper", "audio:semantics", "audio:temporal">>,
      video |-> <<"video:load", "video:audiotrack", "video:keyframes", "video:fusion">> ]

RISK_LEVELS ==
    [ SAFE    |-> [threshold |-> 0,                 class |-> "risk-safe"],
      WARNING |-> [threshold |-> WARNING_THRESHOLD, class |-> "risk-warning"],
      DANGER  |-> [threshold |-> DANGER_THRESHOLD,  class |-> "risk-danger"] ]

BTN_ANALYZING == "analyzing"
BTN_DEFAULT == "start-moderation"

\* Error messages: a text and, where the code formats a number into it, the number
Msg(text, arg) == [text |-> text, arg |-> arg]

TIMEOUT_MESSAGE == Msg("timeout: check the network or the file size", 0)
DEFAULT_FAILURE == Msg("moderation failed", 0)

\* messages the browser words
UNDEFINED_MESSAGE == Msg("cannot read properties of undefined", 0)
NETWORK_MESSAGE == Msg("failed to fetch", 0)
ABORT_MESSAGE == Msg("the user aborted a request", 0)
SYNTAX_MESSAGE == Msg("unexpected token in JSON", 0)

-----------------------------------------------------------------------------
(* Values *)

None == "none"
NoResult == [kind |-> None]             \* data.result is undefined
NoError == [name |-> None]
Markup == "markup"        \* what the page's HTML put there, before any script wrote it
NoFiles == <<>>                         \* an empty FileList

Chars == {" ", "a"}
Whitespace == {" "}

\* values of the text box: empty, blank, and a text with a blank before it
Texts == {<<>>, <<" ">>, <<" ", "a">>}

\* file.size values on both sides of the video cap
FileSizes == {MAX_SIZE, MAX_SIZE + 1}

\* the FileLists a file input of `mode` is given: empty, or one file; the
\* video input gets a file at the cap and one above it, the others one above it
FileLists(mode) ==
    {NoFiles} \cup {<<size>> : size \in IF mode = "video" THEN FileSizes ELSE {MAX_SIZE + 1}}

\* response.status values; response.ok is 200..299
Statuses == {200, 500}

\* data.error: absent, empty, or a text
ServerErrors == {None, "", "bad content"}

Frames == {"none", "ok", "bad"}   \* data.frames: absent/empty, well formed, an entry without .result

ResultsOver(confidences, frames) ==
    [kind : {"result"}, violation : BOOLEAN, confidence : confidences, frames : frames]

Err(name, message) == [name |-> name, message |-> message]

-----------------------------------------------------------------------------
(* frontend/js/ui.js *)

\* setProcessingState without `btn.disabled = isProcessing`
setProcessingState_buttonStaysEnabled(u, processing) ==
    IF processing
    THEN [u EXCEPT !.isProcessing = TRUE,
                   !.loadingShown = TRUE,
                   !.placeholderDisplay = "none",
                   !.resultShown = FALSE,
                   !.btnText = BTN_ANALYZING]
    ELSE [u EXCEPT !.isProcessing = FALSE,
                   !.loadingShown = FALSE,
                   !.btnText = BTN_DEFAULT]

setProcessingState(u, processing) ==
    IF processing
    THEN [u EXCEPT !.isProcessing = TRUE,
                   !.btnDisabled = TRUE,
                   !.loadingShown = TRUE,
                   !.placeholderDisplay = "none",
                   !.resultShown = FALSE,
                   !.btnText = BTN_ANALYZING]
    ELSE [u EXCEPT !.isProcessing = FALSE,
                   !.btnDisabled = FALSE,
                   !.loadingShown = FALSE,
                   !.btnText = BTN_DEFAULT]

\* riskLevelOf with the last branch falling through to SAFE
riskLevelOf_lowConfidenceSafe(result) ==
    IF result.violation /\ result.confidence >= RISK_LEVELS.DANGER.threshold THEN "DANGER"
    ELSE IF result.violation /\ result.confidence >= RISK_LEVELS.WARNING.threshold THEN "WARNING"
    ELSE "SAFE"

riskLevelOf(result) ==
    IF result.violation
    THEN IF result.confidence >= RISK_LEVELS.DANGER.threshold THEN "DANGER"
         ELSE IF result.confidence >= RISK_LEVELS.WARNING.threshold THEN "WARNING"
         ELSE "WARNING"
    ELSE "SAFE"

\* renderResultHTML: the confidence line, and the frame timeline in video mode;
\* a frame without .result makes frame.result.violation throw
renderThrows(data, mode) == mode = "video" /\ data.frames = "bad"

renderResultHTML(data, mode) ==
    [kind |-> "result", message |-> Msg("confidence", data.confidence),
     timeline |-> (mode = "video" /\ data.frames = "ok")]

\* displayResults: the UI it leaves and what it threw
displayResults(u, result, mode) ==
    IF result = NoResult
    THEN [ui |-> u, error |-> Err("TypeError", UNDEFINED_MESSAGE)]
    ELSE LET badged == [u EXCEPT !.riskBadge = RISK_LEVELS[riskLevelOf(result)].class]
         IN IF renderThrows(result, mode)
            THEN [ui |-> badged,
                  error |-> Err("TypeError", UNDEFINED_MESSAGE)]
            ELSE [ui |-> [badged EXCEPT !.resultDetails = renderResultHTML(result, mode),
                                        !.resultShown = TRUE],
                  error |-> NoError]

showError(u, message) ==
    [u EXCEPT !.riskBadge = "risk-danger failed",
              !.resultDetails = [kind |-> "error", message |-> message, timeline |-> FALSE],
              !.resultShown = TRUE]

resetResults(u) ==
    [u EXCEPT !.resultShown = FALSE, !.placeholderDisplay = "block"]

switchMode(u, mode) == resetResults([u EXCEPT !.currentMode = mode])

-----------------------------------------------------------------------------
(* frontend/js/app.js *)

RECURSIVE trimStart(_)
trimStart(s) ==
    IF s # <<>> /\ Head(s) \in Whitespace THEN trimStart(Tail(s)) ELSE s

RECURSIVE trimEnd(_)
trimEnd(s) ==
    IF s # <<>> /\ s[Len(s)] \in Whitespace THEN trimEnd(SubSeq(s, 1, Len(s) - 1)) ELSE s

trim(s) == trimEnd(trimStart(s))

\* validateInput without the trim()
validateInput_noTrim(mode) ==
    IF mode = "text"
    THEN Len(textInput) > 0
    ELSE Len(files[mode]) > 0

validateInput(mode) ==
    IF mode = "text"
    THEN Len(trim(textInput)) > 0
    ELSE Len(files[mode]) > 0

\* (file.size/1024/1024).toFixed(1), in tenths of a megabyte
megabyteTenths(size) == (size * 20 + 1048576) \div (2 * 1048576)

\* prepareContent without the video size check
prepareContent_noSizeCheck(mode) ==
    IF mode = "text"
    THEN [error |-> NoError, content |-> textInput]
    ELSE [error |-> NoError, content |-> <<files[mode][1]>>]

\* prepareContent: the content, or the error it throws
prepareContent(mode) ==
    IF mode = "text"
    THEN [error |-> NoError, content |-> textInput]
    ELSE LET file == files[mode][1]
         IN IF mode = "video" /\ file > MAX_SIZE
            THEN [error |-> Err("Error", Msg("video too large", megabyteTenths(file))),
                  content |-> <<>>]
            ELSE [error |-> NoError, content |-> <<file>>]

-----------------------------------------------------------------------------
(* frontend/js/api.js *)

\* the catch block rethrowing whatever it caught
moderateCatch_rethrow(error) == error

\* the catch block of APIService.moderate
moderateCatch(error) ==
    IF error.name = "AbortError" THEN Err("Error", TIMEOUT_MESSAGE) ELSE error

\* data.error without the default
failureMessage_noDefault(data) == Msg(data.error, 0)

\* data.error || default
failureMessage(data) ==
    IF data.error = None \/ data.error = "" THEN DEFAULT_FAILURE ELSE Msg(data.error, 0)

-----------------------------------------------------------------------------
(* History of one validated submission: what was submitted, what the       *)
(* network did to it, and which calls the orchestrator made for it.        *)

NoSubmission ==
    [mode |-> None, size |-> 0, done |-> FALSE,
     moderate |-> 0, showError |-> 0, display |-> 0,
     status |-> 0, success |-> None, serverError |-> None, failure |-> None,
     rejection |-> Msg(None, 0), displayed |-> NoResult, panelAtEnd |-> FALSE]

\* the state restored at the end of the try block instead of in a finally
settle_noFinally(u, error) ==
    IF error = NoError THEN setProcessingState(u, FALSE) ELSE showError(u, error.message)

\* the try/catch/finally of startModeration once the try block has ended
\* with `error` (or normally): showError in the catch, then the finally
settle(u, error) ==
    setProcessingState(IF error = NoError THEN u ELSE showError(u, error.message), FALSE)

finished(s, u, error) ==
    [s EXCEPT !.done = TRUE,
              !.showError = IF error = NoError THEN @ ELSE @ + 1,
              !.panelAtEnd = u.resultShown]

RemoveAt(seq, i) == SubSeq(seq, 1, i - 1) \o SubSeq(seq, i + 1, Len(seq))

-----------------------------------------------------------------------------
(* State after the constructors: `new UIController()` and the bindings of *)
(* ModerationApp.init.                                                     *)

InitialUI ==
    [currentMode |-> "text", isProcessing |-> FALSE,
     btnDisabled |-> FALSE, btnText |-> Markup, loadingShown |-> FALSE,
     placeholderDisplay |-> "", resultShown |-> FALSE,
     riskBadge |-> Markup,
     resultDetails |-> [kind |-> Markup, message |-> Msg(None, 0), timeline |-> FALSE],
     loadingDetail |-> Markup]

Init ==
    /\ ui = InitialUI
    /\ textInput = <<>>
    /\ files = [m \in FileModes |-> NoFiles]
    /\ previewShown = {}
    /\ intervals = <<>>
    /\ requests = <<>>
    /\ alertOpen = FALSE
    /\ sub = NoSubmission

-----------------------------------------------------------------------------
(* User events *)

\* the user edits #text-input
TypeText(t) ==
    /\ ~alertOpen
    /\ textInput' = t
    /\ UNCHANGED <<ui, files, previewShown, intervals, requests, alertOpen, sub>>

\* 'change' on #<mode>-file, or 'drop' on its zone: the input holds `list`,
\* and handleFile previews its first file if there is one
ChooseFile(mode, list) ==
    /\ ~alertOpen
    /\ files' = [files EXCEPT ![mode] = list]
    /\ previewShown' = IF Len(list) > 0 THEN previewShown \cup {mode} ELSE previewShown
    /\ UNCHANGED <<ui, textInput, intervals, requests, alertOpen, sub>>

\* click on a .mode-tab
SwitchMode(mode) ==
    /\ ~alertOpen
    /\ ui' = switchMode(ui, mode)
    /\ UNCHANGED <<textInput, files, previewShown, intervals, requests, alertOpen, sub>>

\* the user closes the alert
DismissAlert ==
    /\ alertOpen
    /\ alertOpen' = FALSE
    /\ UNCHANGED <<ui, textInput, files, previewShown, intervals, requests, sub>>

\* click on #moderate-btn (a disabled button delivers no click):
\* startModeration up to its await of fetch, or to its end when it never
\* reaches fetch.  maxIntervals caps the caption timers alive at once.
StartModeration(maxIntervals) ==
    /\ ~alertOpen
    /\ ~ui.btnDisabled
    /\ Len(requests) < MaxRequests
    /\ Len(intervals) < maxIntervals
    /\ LET mode == ui.currentMode IN
       IF ~validateInput(mode)
       THEN /\ alertOpen' = TRUE
            /\ UNCHANGED <<ui, textInput, files, previewShown, intervals, requests, sub>>
       ELSE LET processing == setProcessingState(ui, TRUE)
                \* updateLoadingProgress(mode)
                loading == [processing EXCEPT !.loadingDetail = LOADING_STEPS[mode][1]]
                prepared == prepareContent(mode)
                started == [NoSubmission EXCEPT
                                !.mode = mode,
                                !.size = IF mode = "text" THEN 0 ELSE files[mode][1]]
            IN /\ intervals' = Append(intervals, [mode |-> mode, i |-> 0])
               /\ IF prepared.error # NoError
                  THEN LET u == settle(loading, prepared.error)
                       IN /\ ui' = u
                          /\ requests' = requests
                          /\ sub' = finished(started, u, prepared.error)
                  ELSE /\ ui' = loading
                       /\ requests' = Append(requests, [mode |-> mode, phase |-> "fetch"])
                       /\ sub' = [started EXCEPT !.moderate = 1]
               /\ UNCHANGED <<textInput, files, previewShown, alertOpen>>

-----------------------------------------------------------------------------
(* Timers of updateLoadingProgress *)

\* the setInterval callback of the k-th live timer
IntervalTick(k) ==
    /\ ~alertOpen
    /\ k \in 1..Len(intervals)
    /\ LET steps == LOADING_STEPS[intervals[k].mode]
           i == (intervals[k].i + 1) % Len(steps)
       IN /\ intervals' = [intervals EXCEPT ![k].i = i]
          /\ ui' = [ui EXCEPT !.loadingDetail = steps[i + 1]]
    /\ UNCHANGED <<textInput, files, previewShown, requests, alertOpen, sub>>

\* setTimeout(() => clearInterval(interval), 8000): timers end in the order
\* they were started
IntervalStop ==
    /\ ~alertOpen
    /\ intervals # <<>>
    /\ intervals' = Tail(intervals)
    /\ UNCHANGED <<ui, textInput, files, previewShown, requests, alertOpen, sub>>

-----------------------------------------------------------------------------
(* Network events resuming APIService.moderate and startModeration *)

\* a request leaves the pool with `error` thrown out of the try block of
\* startModeration (NoError: the try block ended normally)
Complete(k, u, s, error) ==
    LET final == settle(u, error)
    IN /\ ui' = final
       /\ sub' = finished(s, final, error)
       /\ requests' = RemoveAt(requests, k)
       /\ UNCHANGED <<textInput, files, previewShown, intervals, alertOpen>>

\* moderate() rejects with what its catch block makes of `error`
Reject(k, s, error) ==
    LET thrown == moderateCatch(error)
    IN Complete(k, ui, [s EXCEPT !.rejection = thrown.message], thrown)

\* fetch resolves with a response of the given status: the timeout is
\* cleared; a status outside 200..299 throws, otherwise response.json() is awaited
FetchResponds(k, status) ==
    /\ ~alertOpen
    /\ k \in 1..Len(requests)
    /\ requests[k].phase = "fetch"
    /\ LET s == [sub EXCEPT !.status = status]
       IN IF status >= 200 /\ status <= 299
          THEN /\ requests' = [requests EXCEPT ![k].phase = "body"]
               /\ sub' = s
               /\ UNCHANGED <<ui, textInput, files, previewShown, intervals, alertOpen>>
          ELSE Reject(k, s, Err("Error", Msg("HTTP error", status)))

\* fetch rejects: the network failed.  The timeout stays armed (clearTimeout is
\* reached only when fetch resolves); when it fires it aborts a fetch that has
\* already settled, which changes nothing, so it is dropped with the request.
FetchFails(k) ==
    /\ ~alertOpen
    /\ k \in 1..Len(requests)
    /\ requests[k].phase = "fetch"
    /\ Reject(k, [sub EXCEPT !.failure = "network"], Err("TypeError", NETWORK_MESSAGE))

\* the setTimeout of moderate() fires while fetch is pending:
\* controller.abort() makes fetch reject with an AbortError
TimeoutFires(k) ==
    /\ ~alertOpen
    /\ k \in 1..Len(requests)
    /\ requests[k].phase = "fetch"
    /\ Reject(k, [sub EXCEPT !.failure = "abort"], Err("AbortError", ABORT_MESSAGE))

\* response.json() resolves with `data`
BodyArrives(k, data) ==
    /\ ~alertOpen
    /\ k \in 1..Len(requests)
    /\ requests[k].phase = "body"
    /\ LET s == [sub EXCEPT !.success = IF data.success THEN "true" ELSE "false",
                            !.serverError = data.error]
       IN IF data.success
          THEN \* moderate() resolves; result.success is true
               LET shown == displayResults(ui, data.result, requests[k].mode)
               IN Complete(k, shown.ui,
                           [s EXCEPT !.display = @ + 1, !.displayed = data.result],
                           shown.error)
          ELSE Reject(k, s, Err("Error", failureMessage(data)))

\* response.json() rejects: the body is not JSON
BodyFails(k) ==
    /\ ~alertOpen
    /\ k \in 1..Len(requests)
    /\ requests[k].phase = "body"
    /\ Reject(k, [sub EXCEPT !.failure = "parse"], Err("SyntaxError", SYNTAX_MESSAGE))

-----------------------------------------------------------------------------
(* Environments *)

UserEvent(maxIntervals) ==
    \/ \E t \in Texts : TypeText(t)
    \/ \E m \in FileModes : \E list \in FileLists(m) : ChooseFile(m, list)
    \/ \E m \in Modes : SwitchMode(m)
    \/ DismissAlert
    \/ StartModeration(maxIntervals)

CaptionTimer ==
    \/ \E k \in 1..MaxStaleIntervals : IntervalTick(k)
    \/ IntervalStop

NetworkEvent(bodies) ==
    \E k \in 1..MaxRequests :
        \/ \E status \in Statuses : FetchResponds(k, status)
        \/ FetchFails(k)
        \/ TimeoutFires(k)
        \/ \E data \in bodies : BodyArrives(k, data)
        \/ BodyFails(k)

\* response bodies: {success: true, result} and {success: false, error}
BodiesOver(results) ==
    [success : {TRUE}, error : {None}, result : results]
    \cup [success : {FALSE}, error : ServerErrors, result : {NoResult}]

-----------------------------------------------------------------------------
(* Spec: the page under every user and network event.  The caption timers *)
(* are started and stopped but their callbacks, which write nothing but   *)
(* #loading-detail, are left to SpecCaption.                               *)

Bodies ==
    BodiesOver(ResultsOver({DANGER_THRESHOLD}, {"none", "bad"}) \cup {NoResult})

Next ==
    \/ UserEvent(MaxIntervals)
    \/ IntervalStop
    \/ NetworkEvent(Bodies)

Spec == Init /\ [][Next]_vars

-----------------------------------------------------------------------------
(* SpecRisk: text submissions that the server answers with a result of    *)
(* every confidence, in percent.                                           *)

RiskBodies ==
    [success : {TRUE}, error : {None}, result : ResultsOver(0..MaxConfidence, {"none"})]

NextRisk ==
    \/ \E t \in Texts : TypeText(t)
    \/ DismissAlert
    \/ StartModeration(MaxIntervals)
    \/ IntervalStop
    \/ \E k \in 1..MaxRequests : FetchResponds(k, 200)
    \/ \E k \in 1..MaxRequests : \E data \in RiskBodies : BodyArrives(k, data)

SpecRisk == Init /\ [][NextRisk]_vars

-----------------------------------------------------------------------------
(* SpecCaption: the caption timers with their callbacks.  The text box    *)
(* and the image input are filled in, the server answers every request    *)
(* with a result, and the user switches tabs and submits.                  *)

InitCaption ==
    /\ ui = InitialUI
    /\ textInput = <<" ", "a">>
    /\ files = [m \in FileModes |-> IF m = "image" THEN <<MAX_SIZE + 1>> ELSE NoFiles]
    /\ previewShown = {"image"}
    /\ intervals = <<>>
    /\ requests = <<>>
    /\ alertOpen = FALSE
    /\ sub = NoSubmission

CaptionBodies ==
    [success : {TRUE}, error : {None}, result : ResultsOver({DANGER_THRESHOLD}, {"none"})]

NextCaption ==
    \/ \E m \in Modes : SwitchMode(m)
    \/ DismissAlert
    \/ StartModeration(MaxStaleIntervals)
    \/ CaptionTimer
    \/ \E k \in 1..MaxRequests : FetchResponds(k, 200)
    \/ \E k \in 1..MaxRequests : \E data \in CaptionBodies : BodyArrives(k, data)

SpecCaption == InitCaption /\ [][NextCaption]_vars

-----------------------------------------------------------------------------
(* SpecLive: text submissions under the one scheduling guarantee the     *)
(* browser gives a request: an armed setTimeout fires.  The server is     *)
(* free to answer or not.                                                  *)

NextLive ==
    \/ \E t \in Texts : TypeText(t)
    \/ DismissAlert
    \/ StartModeration(MaxIntervals)
    \/ IntervalStop
    \/ NetworkEvent(Bodies)

SpecLive ==
    Init /\ [][NextLive]_vars /\ WF_vars(\E k \in 1..MaxRequests : TimeoutFires(k))

-----------------------------------------------------------------------------
(* Properties *)

Range(seq) == {seq[i] : i \in 1..Len(seq)}

\* the submission recorded in sub was handed to displayResults, which
\* wrote the badge and threw nothing
Displayed == sub.display > 0 /\ sub.displayed # NoResult /\ sub.showError = 0

\* C1: the badge of a displayed result is DANGER for a violation with
\* confidence >= 80%, WARNING for a violation with confidence in [60%, 80%),
\* WARNING too for a violation below 60%, and SAFE without a violation,
\* whatever the confidence.
RiskClassification ==
    Displayed =>
        LET violation == sub.displayed.violation
            confidence == sub.displayed.confidence
        IN /\ (violation /\ confidence >= 80) => ui.riskBadge = "risk-danger"
           /\ (violation /\ confidence >= 60 /\ confidence < 80) => ui.riskBadge = "risk-warning"
           /\ (violation /\ confidence < 60) => ui.riskBadge = "risk-warning"
           /\ ~violation => ui.riskBadge = "risk-safe"

\* C1 witness: a violation below the WARNING threshold is on screen
LowConfidenceViolationDisplayed ==
    Displayed /\ sub.displayed.violation /\ sub.displayed.confidence = 59 /\ ui.resultShown

\* C2: at most one call of APIService.moderate is unsettled at any time,
\* and while one is the submit button is disabled.
OneRequestInFlight ==
    /\ Len(requests) <= 1
    /\ requests # <<>> => (ui.btnDisabled /\ ui.isProcessing)

\* C2 witness: a request is awaiting its body, the button is disabled, and
\* the user has meanwhile switched to another tab and chosen a file there
RequestInFlightAfterSwitch ==
    /\ Len(requests) = 1
    /\ requests[1].phase = "body"
    /\ ui.btnDisabled
    /\ ui.currentMode # requests[1].mode
    /\ ui.currentMode \in FileModes
    /\ files[ui.currentMode] # NoFiles

\* C3: a video submission whose file is larger than 50MB never calls
\* APIService.moderate and has ended with the error panel on screen.
OversizedVideoRejected ==
    (sub.mode = "video" /\ sub.size > 50 * 1024 * 1024) =>
        /\ sub.moderate = 0
        /\ sub.done
        /\ sub.showError = 1
        /\ sub.panelAtEnd
        /\ ui.resultDetails.kind = "error"
        /\ ui.resultDetails.message.text = "video too large"

\* C3 witness: an oversized video has been submitted
OversizedVideoSubmitted ==
    sub.mode = "video" /\ sub.size = 50 * 1024 * 1024 + 1 /\ sub.done /\ ui.resultShown

\* the active mode has no input: a text box that is empty or all blanks, or
\* a file input with no file
InputEmpty ==
    IF ui.currentMode = "text"
    THEN \A i \in 1..Len(textInput) : textInput[i] = " "
    ELSE Len(files[ui.currentMode]) = 0

\* C4: startModeration on empty input raises the alert, sends no request and
\* leaves the processing flag, the button, the loading indicator and the
\* result and placeholder panels as they were.
EmptyInputBlocked ==
    [][(StartModeration(MaxIntervals) /\ InputEmpty) =>
            /\ alertOpen'
            /\ requests' = requests
            /\ sub' = sub
            /\ intervals' = intervals
            /\ ui' = ui]_vars

\* C4 witness: the alert is up for a text box of blanks, over a result that
\* stays on screen
AlertOverBlankText ==
    alertOpen /\ ui.currentMode = "text" /\ textInput = <<" ">> /\ ui.resultShown

\* C5: a request aborted by the timeout is rejected by moderate() with the
\* timeout message, not with the AbortError's own, and the error panel shows
\* the timeout message.
TimeoutMessageShown ==
    sub.failure = "abort" =>
        /\ sub.done
        /\ sub.rejection = TIMEOUT_MESSAGE
        /\ sub.rejection # ABORT_MESSAGE
        /\ sub.panelAtEnd
        /\ ui.resultDetails.kind = "error"
        /\ ui.resultDetails.message = TIMEOUT_MESSAGE

\* C5 witness: a timed out submission with its panel on screen
TimedOut == sub.failure = "abort" /\ sub.done /\ ui.resultShown

\* C6: once a validated submission has finished, however it finished, the
\* processing flag is false, the button enabled, the loading indicator
\* hidden and the button caption reset.
StateRestored ==
    sub.done =>
        /\ ~ui.isProcessing
        /\ ~ui.btnDisabled
        /\ ~ui.loadingShown
        /\ ui.btnText = BTN_DEFAULT

\* C6 witness: a submission finished by an exception thrown while rendering
RenderingThrew == sub.done /\ sub.display = 1 /\ sub.showError = 1

\* the failures of a request: HTTP status outside 2xx, success=false in the
\* body, a network error, the timeout
HttpFailure == sub.status # 0 /\ ~(sub.status >= 200 /\ sub.status <= 299)
ServerFailure == sub.success = "false"
NetworkFailure == sub.failure = "network"
TimeoutFailure == sub.failure = "abort"

ExpectedMessage ==
    IF HttpFailure THEN Msg("HTTP error", sub.status)
    ELSE IF ServerFailure
         THEN IF sub.serverError \in {None, ""}
              THEN Msg("moderation failed", 0)
              ELSE Msg(sub.serverError, 0)
    ELSE IF NetworkFailure THEN NETWORK_MESSAGE
    ELSE TIMEOUT_MESSAGE

\* C7: for a finished submission displayResults was called iff the response
\* was 2xx with success=true; every failure called showError exactly once,
\* with the error's message, and displayResults not at all; and no
\* submission made a second request.
FailuresSurfacedOnce ==
    sub.done =>
        /\ (sub.display >= 1) <=>
                (sub.status >= 200 /\ sub.status <= 299 /\ sub.success = "true")
        /\ sub.display <= 1
        /\ sub.moderate <= 1
        /\ requests = <<>>
        /\ (HttpFailure \/ ServerFailure \/ NetworkFailure \/ TimeoutFailure) =>
                /\ sub.showError = 1
                /\ sub.display = 0
                /\ ui.resultDetails.kind = "error"
                /\ ui.resultDetails.message = ExpectedMessage

\* C7 witness: the server reported a failure with an empty error text
ServerFailureWithoutText ==
    sub.done /\ sub.success = "false" /\ sub.serverError = "" /\ ui.resultShown

\* C8: every validated submission eventually leaves the processing state.
EventuallyCompletes == ui.isProcessing ~> ~ui.isProcessing

\* C9: the result container is shown only when the placeholder is hidden.
PanelsExclusive == ui.resultShown => ui.placeholderDisplay = "none"

\* C10: while the loading indicator is shown for a submission made in mode m,
\* the caption is one of the LOADING_STEPS of m.
CaptionOfSubmittedMode ==
    (ui.loadingShown /\ requests # <<>>) =>
        ui.loadingDetail \in Range(LOADING_STEPS[requests[1].mode])

====
